---- MODULE Spec2Model ----
(***************************************************************************)
(* A model of the `table` crate: a positional collection kept in two       *)
(* files, <name>.idx (the record lengths) and <name>.dat (the concatenated *)
(* MessagePack bytes of the records).  The model follows src/src/untyped.rs *)
(* and src/src/iter.rs statement by statement; the MessagePack codec       *)
(* (rmp_serde) is modelled by the bytes it produces and accepts for the    *)
(* value shapes used here.                                                 *)
(***************************************************************************)
EXTENDS Integers, Sequences, FiniteSets, TLC

\* ------------------------------------------------------------------ bounds
\* Pushes over the whole life of the named table (the cached total only grows).
MaxPushes == 3
\* Calls that end in an I/O error over the whole life of the named table.
MaxFaults == 2

\* ------------------------------------------------------------------ values
\* A value is a u32 or the test struct Test { number: u32, boolean: bool }.
U(n) == [t |-> "u32", n |-> n, b |-> FALSE]
T(n, b) == [t |-> "Test", n |-> n, b |-> b]
NoVal == [t |-> "none", n |-> 0, b |-> FALSE]

\* The values a caller pushes: encoded lengths 2 and 3 (0xcc 0xc8, and the
\* 0x92 0x05 0xc3 of src/src/test.rs).
Values == {U(200), T(5, TRUE)}
\* The type parameter V a caller gives to get, pop and iter.
Types == {"u32", "Test"}

\* ------------------------------------------------------------------ results
OkUnit == [k |-> "ok", v |-> NoVal]
OkNone == [k |-> "none", v |-> NoVal]
OkSome(v) == [k |-> "some", v |-> v]
ErrIo == [k |-> "io", v |-> NoVal]
ErrDec == [k |-> "dec", v |-> NoVal]
ErrEnc == [k |-> "enc", v |-> NoVal]
Panic == [k |-> "panic", v |-> NoVal]
NoRes == [k |-> "-", v |-> NoVal]

\* ------------------------------------------------------------------ helpers
RECURSIVE Sum(_)
Sum(s) == IF Len(s) = 0 THEN 0 ELSE s[1] + Sum(Tail(s))

RECURSIVE Zeros(_)
Zeros(n) == IF n <= 0 THEN <<>> ELSE <<0>> \o Zeros(n - 1)

Max(a, b) == IF a >= b THEN a ELSE b

\* ------------------------------------------------------------------ codec
\* MessagePack unsigned integer: positive fixint below 128, else uint8 (0xcc).
EncU(n) == IF n < 128 THEN <<n>> ELSE <<204, n>>

\* MessagePack bool: 0xc2 false, 0xc3 true.
EncBool(b) == IF b THEN <<195>> ELSE <<194>>

\* serde_msgpack::to_vec of a value: a struct is a fixarray of its fields.
Encode(v) ==
  IF v.t = "u32" THEN EncU(v.n)
  ELSE <<146>> \o EncU(v.n) \o EncBool(v.b)

\* Parse one unsigned integer at 1-based index i.
ParseU(bytes, i) ==
  IF i > Len(bytes) THEN [ok |-> FALSE, n |-> 0, next |-> i]
  ELSE IF bytes[i] < 128 THEN [ok |-> TRUE, n |-> bytes[i], next |-> i + 1]
  ELSE IF bytes[i] = 204 /\ i + 1 <= Len(bytes)
    THEN [ok |-> TRUE, n |-> bytes[i + 1], next |-> i + 2]
  ELSE [ok |-> FALSE, n |-> 0, next |-> i]

\* Parse one bool at 1-based index i.
ParseBool(bytes, i) ==
  IF i > Len(bytes) THEN [ok |-> FALSE, b |-> FALSE, next |-> i]
  ELSE IF bytes[i] = 195 THEN [ok |-> TRUE, b |-> TRUE, next |-> i + 1]
  ELSE IF bytes[i] = 194 THEN [ok |-> TRUE, b |-> FALSE, next |-> i + 1]
  ELSE [ok |-> FALSE, b |-> FALSE, next |-> i]

\* serde_msgpack::from_slice::<V>: decodes one V from the front of the slice
\* (bytes after the value are not looked at); a marker of another type, or a
\* slice that ends early, is a decode error.
Decode(ty, bytes) ==
  IF ty = "u32" THEN
    LET p == ParseU(bytes, 1) IN
      IF p.ok THEN OkSome(U(p.n)) ELSE ErrDec
  ELSE
    IF Len(bytes) = 0 \/ bytes[1] # 146 THEN ErrDec
    ELSE LET p == ParseU(bytes, 2) IN
      IF ~p.ok THEN ErrDec
      ELSE LET q == ParseBool(bytes, p.next) IN
        IF q.ok THEN OkSome(T(p.n, q.b)) ELSE ErrDec

RECURSIVE EncLens(_)
EncLens(h) == IF Len(h) = 0 THEN <<>> ELSE EncU(h[1]) \o EncLens(Tail(h))

\* serde_msgpack::to_vec(&Vec<u64>): a fixarray marker, then each length.
EncodeHeader(h) == <<144 + Len(h)>> \o EncLens(h)

RECURSIVE ParseLens(_, _, _)
ParseLens(bytes, i, n) ==
  IF n = 0 THEN [ok |-> TRUE, h |-> <<>>]
  ELSE LET p == ParseU(bytes, i) IN
    IF ~p.ok THEN [ok |-> FALSE, h |-> <<>>]
    ELSE LET r == ParseLens(bytes, p.next, n - 1) IN
      IF r.ok THEN [ok |-> TRUE, h |-> <<p.n>> \o r.h] ELSE [ok |-> FALSE, h |-> <<>>]

\* serde_msgpack::from_read::<Vec<u64>> on the header file.
DecodeHeader(bytes) ==
  IF Len(bytes) = 0 \/ bytes[1] < 144 \/ bytes[1] > 159 THEN [ok |-> FALSE, h |-> <<>>]
  ELSE ParseLens(bytes, 2, bytes[1] - 144)

\* ------------------------------------------------------------------ files
\* File::set_len: truncate, or extend with zero bytes.
SetLen(f, n) == IF n <= Len(f) THEN SubSeq(f, 1, n) ELSE f \o Zeros(n - Len(f))

\* write_all at byte offset off (0-based): overwrites, growing the file.
WriteAt(f, off, bytes) ==
  LET g == SetLen(f, Max(Len(f), off + Len(bytes))) IN
    SubSeq(g, 1, off) \o bytes \o SubSeq(g, off + Len(bytes) + 1, Len(g))

\* read_exact of n bytes at offset off: UnexpectedEof when the file is short.
ReadExact(f, off, n) ==
  IF n = 0 THEN [ok |-> TRUE, bytes |-> <<>>, cur |-> off]
  ELSE IF off + n <= Len(f)
    THEN [ok |-> TRUE, bytes |-> SubSeq(f, off + 1, off + n), cur |-> off + n]
  ELSE [ok |-> FALSE, bytes |-> <<>>, cur |-> Max(off, Len(f))]

\* ------------------------------------------------------------------ state
VARIABLES
  header,        \* Table.header: the in-memory record index (lengths)
  len,           \* Table.len: the cached total of the lengths
  data_file,     \* the bytes of <name>.dat
  data_pos,      \* the cursor of the data-file handle
  header_file,   \* the bytes of <name>.idx
  idx_exists,    \* whether <name>.idx exists on disk
  state,         \* "closed", "open", or "panicked" (unwinding, before Drop)
  it,            \* the live TableIterator, if any, and what it has yielded
  it2,           \* a second TableIterator over the same table
  vec,           \* the Vec the same pushes and pops produce
  pushes,        \* calls of push so far
  popped,        \* calls of pop that returned Ok(Some(_))
  clean,         \* every push and pop so far returned Ok
  noPop,         \* pop was never called
  explicitFlush, \* write_header was called since the last push or pop
  faults,        \* calls that ended in an I/O error so far
  last,          \* the last call: its arguments, its result, the state before it
  prev           \* the call before the last one

vars == <<header, len, data_file, data_pos, header_file, idx_exists, state, it,
          it2, vec, pushes, popped, clean, noPop, explicitFlush, faults, last, prev>>

NoIter == [active |-> FALSE, ty |-> "u32", pos |-> 0, offset |-> 0, done |-> FALSE, out |-> <<>>]

\* The record of a call, with the state it was made in.
Call(op, v, ty, pos, res) ==
  [op |-> op, v |-> v, ty |-> ty, pos |-> pos, res |-> res,
   h0 |-> header, len0 |-> len, d0 |-> data_file, hf0 |-> header_file,
   c0 |-> clean]

NoCall == [op |-> "none", v |-> NoVal, ty |-> "u32", pos |-> 0, res |-> NoRes,
           h0 |-> <<>>, len0 |-> 0, d0 |-> <<>>, hf0 |-> <<>>, c0 |-> TRUE]

\* What is kept of the call before the last one: a push or a drop, with the
\* state it was made in, or that it was neither.
Trim(c) ==
  IF c.op \in {"push", "drop"}
    THEN [op |-> c.op, v |-> c.v, res |-> c.res, h0 |-> c.h0, d0 |-> c.d0]
  ELSE [op |-> "other", v |-> NoVal, res |-> NoRes, h0 |-> <<>>, d0 |-> <<>>]

Init ==
  /\ header = <<>>
  /\ len = 0
  /\ data_file = <<>>
  /\ data_pos = 0
  /\ header_file = <<>>
  /\ idx_exists = FALSE
  /\ state = "closed"
  /\ it = NoIter
  /\ it2 = NoIter
  /\ vec = <<>>
  /\ pushes = 0
  /\ popped = 0
  /\ clean = TRUE
  /\ noPop = TRUE
  /\ explicitFlush = FALSE
  /\ faults = 0
  /\ last = NoCall
  /\ prev = Trim(NoCall)

\* ------------------------------------------------------------------ open
\* Mutant: the existing index file is not read.
LoadHeaderIgnoresFile(existed, hf) == [ok |-> TRUE, h |-> <<>>]

\* Mutant: an index file that does not decode is opened as an empty table.
LoadHeaderEmptyOnError(existed, hf) ==
  IF existed /\ DecodeHeader(hf).ok THEN DecodeHeader(hf) ELSE [ok |-> TRUE, h |-> <<>>]

\* Table::open: the header is decoded from the index file if that file existed,
\* and is empty otherwise.
LoadHeader(existed, hf) ==
  IF existed THEN DecodeHeader(hf) ELSE [ok |-> TRUE, h |-> <<>>]

Open ==
  /\ state = "closed"
  /\ LET r == LoadHeader(idx_exists, header_file) IN
       /\ idx_exists' = TRUE
       /\ IF r.ok
            THEN /\ header' = r.h
                 /\ len' = Sum(r.h)
                 /\ state' = "open"
                 /\ data_pos' = 0
                 /\ last' = Call("open", NoVal, "u32", 0, OkUnit)
            ELSE /\ UNCHANGED <<header, len, state, data_pos>>
                 /\ last' = Call("open", NoVal, "u32", 0, ErrDec)
  /\ prev' = Trim(last)
  /\ UNCHANGED <<it2, faults, data_file, header_file, it, vec, pushes, popped, clean, noPop,
                 explicitFlush>>

\* ------------------------------------------------------------------ get
\* Mutant: the bounds check is off by one.
OutOfRangeOffByOne(pos, h) == pos > Len(h)

\* Table::get, line 82: the position has no header entry.
OutOfRange(pos, h) == pos >= Len(h)

\* Table::get, line 87: the sum of all header entries before the position.
GetStart(h, pos) == Sum(SubSeq(h, 1, pos))

\* Mutant: the seek is relative to the cursor the last read left.
SeekCurrent(cur, offset) == cur + offset

\* seek(SeekFrom::Start(offset)): the cursor the seek leaves, wherever it was.
SeekStart(cur, offset) == offset

\* Table::get_at: seek to the offset, read exactly l bytes, decode.
GetAt(f, cur, offset, l, ty) ==
  LET rd == ReadExact(f, SeekStart(cur, offset), l) IN
    [res |-> IF rd.ok THEN Decode(ty, rd.bytes) ELSE ErrIo, cur |-> rd.cur]

\* Table::get: the result and the data-file cursor it leaves.
GetOutcome(h, f, cur, pos, ty) ==
  IF OutOfRange(pos, h) THEN [res |-> OkNone, cur |-> cur]
  ELSE IF pos >= Len(h) THEN [res |-> Panic, cur |-> cur]  \* header[pos]: index out of bounds
  ELSE GetAt(f, cur, GetStart(h, pos), h[pos + 1], ty)

\* Table::get called by the holder of the table.
GetStep(pos, ty) ==
  /\ state = "open"
  /\ LET o == GetOutcome(header, data_file, data_pos, pos, ty) IN
       /\ data_pos' = o.cur
       /\ last' = Call("get", NoVal, ty, pos, o.res)
       /\ state' = IF o.res = Panic THEN "panicked" ELSE state
  /\ prev' = Trim(last)
  /\ UNCHANGED <<it2, faults, header, len, data_file, header_file, idx_exists, it, vec,
                 pushes, popped, clean, noPop, explicitFlush>>

\* A caller's get between two scans (a scan runs to its end or is dropped before
\* the next call on the table; SpecReaders has the gets during a scan).
Get(pos, ty) ==
  /\ ~it.active
  /\ GetStep(pos, ty)

\* ------------------------------------------------------------------ push
\* Table::push after a successful encode: the header entry, the cached total,
\* set_len to the total, seek to End(-n), write_all.
PushData(f, total, bytes) == WriteAt(SetLen(f, total), total - Len(bytes), bytes)

Push(v) ==
  /\ state = "open"
  /\ ~it.active
  /\ ~it2.active
  /\ pushes < MaxPushes
  /\ LET serialized == Encode(v)
         n == Len(serialized)
     IN /\ header' = Append(header, n)
        /\ len' = len + n
        /\ data_file' = PushData(data_file, len + n, serialized)
        /\ data_pos' = len + n
  /\ vec' = Append(vec, v)
  /\ pushes' = pushes + 1
  /\ explicitFlush' = FALSE
  /\ last' = Call("push", v, v.t, 0, OkUnit)
  /\ prev' = Trim(last)
  /\ UNCHANGED <<it2, faults, header_file, idx_exists, state, it, popped, clean, noPop>>

\* ------------------------------------------------------------------ pop
\* Mutant: the emptiness check is missing.
IsEmptyNever(h) == FALSE

\* Table::pop, line 148.
IsEmpty(h) == Len(h) = 0

\* Table::pop, line 159: `rest` is the header after header.pop().
PopStart(total, rest) == total - rest[Len(rest)]

\* Table::pop: the result, and the header, data file and cursor it leaves.
PopOutcome(h, total, f, cur, ty) ==
  IF IsEmpty(h) THEN [res |-> OkNone, h |-> h, f |-> f, cur |-> cur]
  ELSE IF Len(h) = 0 THEN [res |-> Panic, h |-> h, f |-> f, cur |-> cur]  \* unwrap of None
  ELSE
    LET l == h[Len(h)]
        rest == SubSeq(h, 1, Len(h) - 1)
    IN
      \* header[header.len() - 1] on the emptied header: 0 - 1 overflows (debug)
      \* or indexes out of bounds (release); both panic.
      IF Len(rest) = 0 THEN [res |-> Panic, h |-> rest, f |-> f, cur |-> cur]
      \* the u64 subtraction would overflow; never the case, see TotalCoversLast
      ELSE IF total < rest[Len(rest)] THEN [res |-> Panic, h |-> rest, f |-> f, cur |-> cur]
      ELSE
        LET start == PopStart(total, rest)
            rd == ReadExact(f, start, l)
        IN
          IF ~rd.ok THEN [res |-> ErrIo, h |-> rest, f |-> f, cur |-> rd.cur]
          ELSE [res |-> Decode(ty, rd.bytes), h |-> rest, f |-> SetLen(f, start),
                cur |-> rd.cur]

Pop(ty) ==
  /\ state = "open"
  /\ ~it.active
  /\ ~it2.active
  /\ LET o == PopOutcome(header, len, data_file, data_pos, ty) IN
       /\ header' = o.h
       /\ data_file' = o.f
       /\ data_pos' = o.cur
       /\ state' = IF o.res = Panic THEN "panicked" ELSE state
       /\ popped' = IF o.res.k = "some" THEN popped + 1 ELSE popped
       /\ clean' = (clean /\ o.res.k \in {"some", "none"})
       /\ last' = Call("pop", NoVal, ty, 0, o.res)
  /\ vec' = IF Len(vec) = 0 THEN vec ELSE SubSeq(vec, 1, Len(vec) - 1)
  /\ noPop' = FALSE
  /\ explicitFlush' = FALSE
  /\ prev' = Trim(last)
  /\ UNCHANGED <<it2, faults, len, header_file, idx_exists, it, pushes>>

\* ------------------------------------------------------------------ header
\* Mutant: the header file is not resized before the write.
HeaderBytesNoResize(hf, h) == WriteAt(hf, 0, EncodeHeader(h))

\* Table::write_header: set_len to the encoded length, seek to 0, write_all.
HeaderBytes(hf, h) == WriteAt(SetLen(hf, Len(EncodeHeader(h))), 0, EncodeHeader(h))

WriteHeader ==
  /\ state = "open"
  /\ ~it.active
  /\ ~it2.active
  /\ header_file' = HeaderBytes(header_file, header)
  /\ explicitFlush' = TRUE
  /\ last' = Call("write_header", NoVal, "u32", 0, OkUnit)
  /\ prev' = Trim(last)
  /\ UNCHANGED <<it2, faults, header, len, data_file, data_pos, idx_exists, state, it, vec,
                 pushes, popped, clean, noPop>>

\* Mutant: the table is released without the flush.
DropNoFlush(hf, h) == hf

\* Drop for Table, line 206: one call of write_header.
DropFlush(hf, h) == HeaderBytes(hf, h)

\* Drop for Table: write_header().ok(), then the table and its handles are gone.
Drop ==
  /\ state \in {"open", "panicked"}
  /\ ~it.active
  /\ ~it2.active
  /\ header_file' = DropFlush(header_file, header)
  /\ header' = <<>>
  /\ len' = 0
  /\ data_pos' = 0
  /\ state' = "closed"
  /\ last' = Call("drop", NoVal, "u32", 0, OkUnit)
  /\ prev' = Trim(last)
  /\ UNCHANGED <<it2, faults, data_file, idx_exists, it, vec, pushes, popped, clean, noPop,
                 explicitFlush>>

\* ------------------------------------------------------------------ iter
\* Table::iter: position 0, offset 0.  The iterator borrows the table, so no
\* push, pop, write_header or drop runs while it lives.
Iter(ty) ==
  /\ state = "open"
  /\ ~it.active
  /\ it' = [active |-> TRUE, ty |-> ty, pos |-> 0, offset |-> 0, done |-> FALSE,
            out |-> <<>>]
  /\ last' = Call("iter", NoVal, ty, 0, OkUnit)
  /\ prev' = Trim(last)
  /\ UNCHANGED <<it2, faults, header, len, data_file, data_pos, header_file, idx_exists, state,
                 vec, pushes, popped, clean, noPop, explicitFlush>>

\* Mutant: the running offset is not advanced.
NextOutcomeStaleOffset(h, f, cur, pos, offset, ty) ==
  IF pos >= Len(h) THEN [res |-> OkNone, pos |-> pos, offset |-> offset, cur |-> cur]
  ELSE LET g == GetAt(f, cur, offset, h[pos + 1], ty)
       IN [res |-> g.res, pos |-> pos + 1, offset |-> offset, cur |-> g.cur]

\* Mutant: the position and the offset advance only past a record that decoded.
NextOutcomeRetryOnError(h, f, cur, pos, offset, ty) ==
  IF pos >= Len(h) THEN [res |-> OkNone, pos |-> pos, offset |-> offset, cur |-> cur]
  ELSE LET l == h[pos + 1]
           g == GetAt(f, cur, offset, l, ty)
       IN IF g.res.k = "some"
            THEN [res |-> g.res, pos |-> pos + 1, offset |-> offset + l, cur |-> g.cur]
            ELSE [res |-> g.res, pos |-> pos, offset |-> offset, cur |-> g.cur]

\* TableIterator::next: the item yielded (OkNone: the end), the new position and
\* offset, and the data-file cursor.
NextOutcome(h, f, cur, pos, offset, ty) ==
  IF pos >= Len(h) THEN [res |-> OkNone, pos |-> pos, offset |-> offset, cur |-> cur]
  ELSE LET l == h[pos + 1]
           g == GetAt(f, cur, offset, l, ty)
       IN [res |-> g.res, pos |-> pos + 1, offset |-> offset + l, cur |-> g.cur]

IterNext ==
  /\ state = "open"
  /\ it.active
  /\ LET o == NextOutcome(header, data_file, data_pos, it.pos, it.offset, it.ty) IN
       /\ it' = [it EXCEPT !.pos = o.pos, !.offset = o.offset,
                           !.done = (o.res = OkNone),
                           !.out = IF o.res = OkNone THEN @ ELSE Append(@, o.res)]
       /\ data_pos' = o.cur
       /\ last' = Call("next", NoVal, it.ty, it.pos, o.res)
  /\ prev' = Trim(last)
  /\ UNCHANGED <<it2, faults, header, len, data_file, header_file, idx_exists, state, vec,
                 pushes, popped, clean, noPop, explicitFlush>>

\* The iterator goes out of scope.
IterDrop ==
  /\ it.active
  /\ it' = NoIter
  /\ last' = Call("iter_drop", NoVal, "u32", 0, OkUnit)
  /\ prev' = Trim(last)
  /\ UNCHANGED <<it2, faults, header, len, data_file, data_pos, header_file, idx_exists, state,
                 vec, pushes, popped, clean, noPop, explicitFlush>>

\* ------------------------------------------------------------------ spec
\* The positions a caller reads: every position of a full table, and one past it.
Positions == 0 .. MaxPushes

Next ==
  \/ Open
  \/ \E pos \in Positions, ty \in Types : Get(pos, ty)
  \/ \E v \in Values : Push(v)
  \/ \E ty \in Types : Pop(ty)
  \/ WriteHeader
  \/ Drop
  \/ \E ty \in Types : Iter(ty)
  \/ IterNext
  \/ IterDrop

Spec == Init /\ [][Next]_vars

\* ------------------------------------------------------------------ faults
\* The calls of push and write_header that end in an error: the encode error of
\* push, and an I/O error of set_len, seek or write_all (after write_all has
\* written k bytes of the n it was given).
FaultCases(n) ==
  {[at |-> "set_len", k |-> 0], [at |-> "seek", k |-> 0]}
    \cup {[at |-> "write", k |-> k] : k \in 0 .. (n - 1)}

\* A value serde_msgpack::to_vec rejects (a sequence of unknown length).
Unencodable == [t |-> "unsized", n |-> 0, b |-> FALSE]

\* Table::push, line 119: the encoded bytes, or the encode error.
PushEncode(v) ==
  IF v.t \in Types THEN [ok |-> TRUE, bytes |-> Encode(v)]
  ELSE [ok |-> FALSE, bytes |-> <<>>]

\* Mutant: the length is added to the index before the encode result is looked at.
AfterEncodeErrorIndexFirst(h, total, bytes) ==
  [h |-> Append(h, Len(bytes)), total |-> total + Len(bytes)]

\* Table::push, line 119: `?` returns the encode error before line 123.
AfterEncodeError(h, total, bytes) == [h |-> h, total |-> total]

PushEncodeError(v) ==
  /\ state = "open"
  /\ ~it.active
  /\ ~it2.active
  /\ pushes < MaxPushes
  /\ ~PushEncode(v).ok
  /\ LET a == AfterEncodeError(header, len, PushEncode(v).bytes) IN
       /\ header' = a.h
       /\ len' = a.total
  /\ pushes' = pushes + 1
  /\ clean' = FALSE
  /\ last' = Call("push", v, v.t, 0, ErrEnc)
  /\ prev' = Trim(last)
  /\ UNCHANGED <<it2, faults, data_file, data_pos, header_file, idx_exists, state, it, vec,
                 popped, noPop, explicitFlush>>

\* Mutant: the index entry and the total are rolled back when the I/O fails.
AfterIoErrorRolledBack(h, total, n) == [h |-> h, total |-> total]

\* Table::push, lines 123 and 125, which run before the data file is touched.
AfterIoError(h, total, n) == [h |-> Append(h, n), total |-> total + n]

\* The data file and its cursor after the failing call of lines 130 to 134.
PushDataFailed(f, cur, total, bytes, fc) ==
  IF fc.at = "set_len" THEN [f |-> f, cur |-> cur]
  ELSE IF fc.at = "seek" THEN [f |-> SetLen(f, total), cur |-> cur]
  ELSE [f |-> WriteAt(SetLen(f, total), total - Len(bytes), SubSeq(bytes, 1, fc.k)),
        cur |-> total - Len(bytes) + fc.k]

PushIoError(v) ==
  /\ state = "open"
  /\ ~it.active
  /\ ~it2.active
  /\ pushes < MaxPushes
  /\ PushEncode(v).ok
  /\ LET serialized == PushEncode(v).bytes
         n == Len(serialized)
         a == AfterIoError(header, len, n)
     IN \E fc \in FaultCases(n) :
          LET d == PushDataFailed(data_file, data_pos, len + n, serialized, fc) IN
            /\ header' = a.h
            /\ len' = a.total
            /\ data_file' = d.f
            /\ data_pos' = d.cur
  /\ pushes' = pushes + 1
  /\ clean' = FALSE
  /\ explicitFlush' = FALSE
  /\ faults < MaxFaults
  /\ faults' = faults + 1
  /\ last' = Call("push", v, v.t, 0, ErrIo)
  /\ prev' = Trim(last)
  /\ UNCHANGED <<it2, header_file, idx_exists, state, it, vec, popped, noPop>>

\* The header file after the failing call of lines 184 to 188.
HeaderBytesFailed(hf, h, fc) ==
  IF fc.at = "set_len" THEN hf
  ELSE IF fc.at = "seek" THEN SetLen(hf, Len(EncodeHeader(h)))
  ELSE WriteAt(SetLen(hf, Len(EncodeHeader(h))), 0, SubSeq(EncodeHeader(h), 1, fc.k))

\* Drop for Table when its write_header fails: .ok() discards the error.
DropIoError ==
  /\ state \in {"open", "panicked"}
  /\ ~it.active
  /\ ~it2.active
  /\ \E fc \in FaultCases(Len(EncodeHeader(header))) :
       header_file' = HeaderBytesFailed(header_file, header, fc)
  /\ header' = <<>>
  /\ len' = 0
  /\ data_pos' = 0
  /\ state' = "closed"
  /\ faults < MaxFaults
  /\ faults' = faults + 1
  /\ last' = Call("drop", NoVal, "u32", 0, ErrIo)
  /\ prev' = Trim(last)
  /\ UNCHANGED <<it2, data_file, idx_exists, it, vec, pushes, popped, clean, noPop,
                 explicitFlush>>

NextFaults ==
  \/ Open
  \/ \E v \in Values : Push(v)
  \/ Drop
  \/ PushEncodeError(Unencodable)
  \/ \E v \in Values : PushIoError(v)
  \/ DropIoError

\* The opens, pushes and releases of one table when encode and I/O errors can
\* happen.
SpecFaults == Init /\ [][NextFaults]_vars

\* ------------------------------------------------------------------ readers
\* get and iter take &self: a second iterator and the caller's gets run between
\* the steps of the first one, all on the one data-file handle of the table.
Iter2(ty) ==
  /\ state = "open"
  /\ it.active
  /\ ~it2.active
  /\ it2' = [active |-> TRUE, ty |-> ty, pos |-> 0, offset |-> 0, done |-> FALSE,
             out |-> <<>>]
  /\ last' = Call("iter2", NoVal, ty, 0, OkUnit)
  /\ prev' = Trim(last)
  /\ UNCHANGED <<it, faults, header, len, data_file, data_pos, header_file, idx_exists,
                 state, vec, pushes, popped, clean, noPop, explicitFlush>>

Iter2Next ==
  /\ state = "open"
  /\ it2.active
  /\ LET o == NextOutcome(header, data_file, data_pos, it2.pos, it2.offset, it2.ty) IN
       /\ it2' = [it2 EXCEPT !.pos = o.pos, !.offset = o.offset,
                             !.done = (o.res = OkNone),
                             !.out = IF o.res = OkNone THEN @ ELSE Append(@, o.res)]
       /\ data_pos' = o.cur
       /\ last' = Call("next2", NoVal, it2.ty, it2.pos, o.res)
  /\ prev' = Trim(last)
  /\ UNCHANGED <<it, faults, header, len, data_file, header_file, idx_exists, state, vec,
                 pushes, popped, clean, noPop, explicitFlush>>

Iter2Drop ==
  /\ it2.active
  /\ it2' = NoIter
  /\ last' = Call("iter2_drop", NoVal, "u32", 0, OkUnit)
  /\ prev' = Trim(last)
  /\ UNCHANGED <<it, faults, header, len, data_file, data_pos, header_file, idx_exists,
                 state, vec, pushes, popped, clean, noPop, explicitFlush>>

NextReaders ==
  \/ Open
  \/ \E v \in Values : Push(v)
  \/ \E pos \in Positions, ty \in Types : GetStep(pos, ty)
  \/ \E ty \in Types : Iter(ty)
  \/ IterNext
  \/ IterDrop
  \/ \E ty \in Types : Iter2(ty)
  \/ Iter2Next
  \/ Iter2Drop

\* One table, filled by pushes, read by its holder and by two iterators in any interleaving.
SpecReaders == Init /\ [][NextReaders]_vars

\* The u64 subtraction of pop (line 159) never overflows.
TotalCoversLast == state = "open" /\ Len(header) > 0 => len >= header[Len(header)]

\* ------------------------------------------------------------------ claims
\* What get(p) with type ty returns in the current state.
GetNow(p, ty) == GetOutcome(header, data_file, data_pos, p, ty).res

\* The bytes the index h assigns to record i (0-based) of the file f.
RecordBytes(h, f, i) == ReadExact(f, Sum(SubSeq(h, 1, i)), h[i + 1])

RECURSIVE ConcatEnc(_)
ConcatEnc(vs) == IF Len(vs) = 0 THEN <<>> ELSE Encode(vs[1]) \o ConcatEnc(Tail(vs))

\* C1: on a table reached by successful pushes and pops, push(v) followed
\* immediately by pop::<type of v>() returns Some(v) and leaves len() at its
\* value before the push.
C1_RoundTrip ==
  (last.op = "pop" /\ prev.op = "push" /\ last.c0 /\ last.ty = prev.v.t)
    => (last.res = OkSome(prev.v) /\ Len(header) = Len(prev.h0))

\* C2: after successful pushes and pops, len() is the number of pushes minus the
\* number of pops that returned a value, and the data file's size is the sum of
\* the in-memory record lengths.
C2_LengthInvariant ==
  (state = "open" /\ clean)
    => (Len(header) = pushes - popped /\ Len(data_file) = Sum(header))

\* C3: after successful pushes and pops the data file is the concatenation of the
\* encodings of the records of the Vec the same calls produce, and get(p) returns
\* the p-th element of that Vec.
C3_RefinesVec ==
  (state = "open" /\ clean)
    => /\ Len(header) = Len(vec)
       /\ data_file = ConcatEnc(vec)
       /\ \A p \in 0 .. (Len(vec) - 1) : GetNow(p, vec[p + 1].t) = OkSome(vec[p + 1])

\* C4: a push leaves the index entries and the stored bytes of records 0..n-1 as
\* they were, and a pop those of records 0..n-2.
C4_TailOnly ==
  /\ (last.op = "push" /\ last.c0)
       => \A i \in 0 .. (Len(last.h0) - 1) :
            /\ header[i + 1] = last.h0[i + 1]
            /\ RecordBytes(header, data_file, i) = RecordBytes(last.h0, last.d0, i)
  /\ (last.op = "pop" /\ last.c0)
       => \A i \in 0 .. (Len(last.h0) - 2) :
            /\ header[i + 1] = last.h0[i + 1]
            /\ RecordBytes(header, data_file, i) = RecordBytes(last.h0, last.d0, i)

\* C5: a table that was only pushed to, then write_header, released and reopened
\* by the same name, opens with len() the number of pushed values and get(i) the
\* i-th pushed value.
C5_PersistAcrossReopen ==
  (last.op = "open" /\ noPop /\ explicitFlush)
    => /\ last.res = OkUnit
       /\ state = "open"
       /\ Len(header) = Len(vec)
       /\ Len(vec) = pushes
       /\ \A i \in 0 .. (Len(vec) - 1) : GetNow(i, vec[i + 1].t) = OkSome(vec[i + 1])

C5_Witness ==
  /\ last.op = "open"
  /\ state = "open"
  /\ noPop
  /\ explicitFlush
  /\ vec = <<U(200), T(5, TRUE), U(200)>>
  /\ Len(header) = 3

\* C6: the items an iterator has yielded are, in order, the results of get(i), and
\* a finished scan of a table of n records yielded exactly n items.
C6_ScanEquivalence ==
  it.active
    => /\ Len(it.out) <= Len(header)
       /\ \A i \in 0 .. (Len(it.out) - 1) : it.out[i + 1] = GetNow(i, it.ty)
       /\ it.done => Len(it.out) = Len(header)

C6_Witness ==
  /\ it.active
  /\ it.done
  /\ it.ty = "u32"
  /\ header = <<2, 3, 2>>
  /\ it.out = <<OkSome(U(200)), ErrDec, OkSome(U(200))>>

\* C7: on a freshly opened empty table the data file after push(v) is exactly the
\* encoding of v, and a pop right after a push leaves the data file as it was
\* before the push (empty, on the fresh table).
C7_DataFileAroundPushPop ==
  /\ (last.op = "push" /\ last.h0 = <<>> /\ last.d0 = <<>>)
       => data_file = Encode(last.v)
  /\ (last.op = "pop" /\ prev.op = "push" /\ last.c0 /\ last.ty = prev.v.t)
       => data_file = prev.d0

\* C8: get(p) with p >= len() returns Ok(None) and neither moves the data-file
\* cursor nor touches the table.
C8_OutOfRangeGet ==
  [][(last'.op = "get" /\ last'.pos >= Len(header))
       => /\ last'.res = OkNone
          /\ data_pos' = data_pos
          /\ data_file' = data_file
          /\ header' = header
          /\ state' = state]_vars

C8_Witness ==
  /\ last.op = "get"
  /\ Len(header) >= 1
  /\ last.pos = Len(header)
  /\ last.res = OkNone

\* C9: pop on a table whose index is empty returns Ok(None) and leaves the index,
\* the cached total and the data file as they were.
C9_EmptyPop ==
  (last.op = "pop" /\ last.h0 = <<>>)
    => /\ last.res = OkNone
       /\ state = "open"
       /\ header = <<>>
       /\ len = last.len0
       /\ data_file = last.d0

C9_Witness ==
  /\ last.op = "pop"
  /\ last.h0 = <<>>
  /\ last.res = OkNone
  /\ state = "open"

\* C10: only write_header (also as called by Drop) changes the header file; after
\* write_header the header file is exactly the encoding of the in-memory index,
\* and the index, the cached total and the data file are as they were.
C10_DeferredHeaderWrite ==
  /\ last.op \notin {"write_header", "drop"} => header_file = last.hf0
  /\ last.op = "write_header"
       => /\ last.res = OkUnit
          /\ header_file = EncodeHeader(header)
          /\ header = last.h0
          /\ len = last.len0
          /\ data_file = last.d0

\* write_header after the index has shrunk: the header file gets shorter.
C10_Witness ==
  /\ last.op = "write_header"
  /\ Len(header_file) < Len(last.hf0)
  /\ header_file = EncodeHeader(header)

\* C11: releasing a table calls write_header once and discards its error (the
\* table is closed either way); when that flush succeeded, the next open of the
\* name loads the index the table held when it was released.
C11_TeardownFlush ==
  /\ last.op = "drop" => state = "closed"
  /\ (last.op = "drop" /\ last.res = OkUnit) => header_file = EncodeHeader(last.h0)
  /\ (last.op = "open" /\ prev.op = "drop" /\ prev.res = OkUnit)
       => /\ last.res = OkUnit
          /\ state = "open"
          /\ header = prev.h0
          /\ len = Sum(prev.h0)

\* Reopened after a release with no explicit write_header since the last push.
C11_Witness ==
  /\ last.op = "open"
  /\ prev.op = "drop"
  /\ prev.res = OkUnit
  /\ ~explicitFlush
  /\ header = <<3, 2>>
  /\ header_file = <<146, 3, 2>>

\* C12: open decodes the index file when it already existed, and fails with a
\* decode error (the table is not opened) when that decoding fails; when the file
\* did not exist the index starts empty; the cached total of an opened table is
\* the sum of the loaded index.
C12_OpenSemantics ==
  [][(last'.op = "open")
       => IF idx_exists
            THEN IF DecodeHeader(header_file).ok
                   THEN /\ last'.res = OkUnit
                        /\ state' = "open"
                        /\ header' = DecodeHeader(header_file).h
                        /\ len' = Sum(header')
                   ELSE /\ last'.res = ErrDec
                        /\ state' = "closed"
            ELSE /\ last'.res = OkUnit
                 /\ state' = "open"
                 /\ header' = <<>>
                 /\ len' = 0]_vars

\* An open that failed: the release of a table that held a record failed in
\* set_len on the index file, which open had created empty.
C12_Witness ==
  /\ last.op = "open"
  /\ last.res = ErrDec
  /\ state = "closed"
  /\ idx_exists
  /\ header_file = <<>>
  /\ Len(data_file) > 0

\* C13: a push whose value cannot be encoded returns the encode error and leaves
\* the index, the cached total, the data file and the header file as they were.
C13_EncodeFailureNoEffect ==
  (last.op = "push" /\ last.res = ErrEnc)
    => /\ header = last.h0
       /\ len = last.len0
       /\ data_file = last.d0
       /\ header_file = last.hf0
       /\ state = "open"

C13_Witness ==
  /\ last.op = "push"
  /\ last.res = ErrEnc
  /\ last.v = Unencodable
  /\ header = <<3, 2>>
  /\ prev.op = "push"
  /\ prev.res = OkUnit

\* C14: a pop whose record does not decode returns the decode error with the last
\* index entry removed and the data file truncated to the start of that record,
\* so len() is one less than before the call.
C14_PopDestructiveOnDecodeError ==
  (last.op = "pop" /\ last.res = ErrDec /\ last.c0)
    => /\ header = SubSeq(last.h0, 1, Len(last.h0) - 1)
       /\ Len(header) = Len(last.h0) - 1
       /\ data_file = SubSeq(last.d0, 1, Sum(header))

C16_CachedTotalInSync == (state = "open" /\ clean) => len = Sum(header)

\* C17: a pop on a table of two or more records whose last two lengths differ
\* removes the last index entry, reads that entry's number of bytes at the total
\* byte length minus that entry, truncates the data file to that offset and
\* returns what those bytes decode to.
C17_PopOffset ==
  (/\ last.op = "pop"
   /\ last.c0
   /\ Len(last.h0) >= 2
   /\ last.h0[Len(last.h0)] # last.h0[Len(last.h0) - 1]
   /\ last.len0 = Sum(last.h0))
    => LET l == last.h0[Len(last.h0)]
           start == Sum(last.h0) - l
       IN /\ header = SubSeq(last.h0, 1, Len(last.h0) - 1)
          /\ data_file = SubSeq(last.d0, 1, start)
          /\ last.res = Decode(last.ty, SubSeq(last.d0, start + 1, start + l))

\* C18: no pop on a non-empty table panics.
C18_PopNeverPanics ==
  (last.op = "pop" /\ Len(last.h0) >= 1) => (last.res # Panic /\ state # "panicked")

\* C19: an iterator starts at position 0 and offset 0; at position p its offset
\* is the sum of index[0..p) and it has yielded p items; a step at p < len()
\* yields an item (a value or an error) and moves to p + 1 and offset + index[p];
\* a step at p = len() yields the end and moves nothing, so a scan that has
\* reached the end yielded len() items.
C19_IteratorStepping ==
  /\ last.op = "iter" => (it.active /\ it.pos = 0 /\ it.offset = 0 /\ it.out = <<>>)
  /\ it.active
       => /\ it.pos <= Len(header)
          /\ it.offset = Sum(SubSeq(header, 1, it.pos))
          /\ Len(it.out) = it.pos
  /\ last.op = "next"
       => IF last.pos < Len(header)
            THEN /\ last.res.k \in {"some", "dec", "io"}
                 /\ it.pos = last.pos + 1
                 /\ it.offset = Sum(SubSeq(header, 1, last.pos)) + header[last.pos + 1]
                 /\ ~it.done
            ELSE /\ last.res = OkNone
                 /\ it.pos = last.pos
                 /\ it.done
                 /\ Len(it.out) = Len(header)

\* A scan as Test of a Test and a u32: the second item is a decode error, the
\* scan went on past it and the third step found the end.
C19_Witness ==
  /\ last.op = "next"
  /\ last.res = OkNone
  /\ it.done
  /\ it.ty = "Test"
  /\ header = <<3, 2>>
  /\ it.pos = 2
  /\ it.offset = 5
  /\ it.out = <<OkSome(T(5, TRUE)), ErrDec>>

\* What get(p) with type ty returns when it is the only read: on a handle whose
\* cursor no other read has moved.
Alone(p, ty) == GetOutcome(header, data_file, 0, p, ty).res

ReadOps == {"get", "iter", "next", "iter_drop", "iter2", "next2", "iter2_drop"}

\* C20: in any interleaving of gets and steps of two live iterators every read
\* returns what it returns when run alone, and no read changes the index, the
\* cached total or the files.
C20_ReadersIndependent ==
  /\ last.op = "get" => last.res = Alone(last.pos, last.ty)
  /\ it.active => \A i \in 0 .. (Len(it.out) - 1) : it.out[i + 1] = Alone(i, it.ty)
  /\ it2.active => \A i \in 0 .. (Len(it2.out) - 1) : it2.out[i + 1] = Alone(i, it2.ty)
  /\ last.op \in ReadOps
       => /\ header = last.h0
          /\ len = last.len0
          /\ data_file = last.d0
          /\ header_file = last.hf0

\* A get of record 2 between the steps of a scan as u32 that has yielded one item
\* and a scan as Test that has yielded two.
C20_Witness ==
  /\ last.op = "get"
  /\ last.pos = 2
  /\ last.res = OkSome(U(200))
  /\ header = <<2, 3, 2>>
  /\ it.active
  /\ it.out = <<OkSome(U(200))>>
  /\ it2.active
  /\ it2.out = <<ErrDec, OkSome(T(5, TRUE))>>
  /\ data_pos = 7

====
